---- MODULE Spec2Model ----
(***************************************************************************)
(* package-pilot (PackageRadar): the import extractor, the tree walker,    *)
(* the usage aggregator and the npm metadata fetcher of src/extension.ts.  *)
(*                                                                         *)
(* Texts, file names, paths and package names are sequences of one-char    *)
(* strings, so that the regular expressions, startsWith, endsWith, split   *)
(* and path.join of the source are computed character by character.        *)
(***************************************************************************)
EXTENDS Integers, Sequences, FiniteSets, TLC

VARIABLES
    \* ---- import extractor (analyzeFileImports on one text)
    stmts,          \* the statements the text was written from
    content,        \* the file text read by analyzeFileImports
    imports,        \* the array analyzeFileImports returned
    xpc,            \* "idle" | "text" | "extracted"
    \* ---- tree walker, unique-package extraction and usage aggregation
    fs,             \* the file system under the root: path -> node
    analysis,       \* what analyzeProjectStructure returned
    uniquePackages, \* what extractUniquePackages returned
    packageUsage,   \* the usage index built in generateAnalysisHTML
    wpc,            \* "idle" | "start" | "walked" | "walkThrew" | "noPackages"
                    \* | "extracted" | "aggregated" | "aggregateThrew"
    \* ---- metadata fetcher (fetchNpmMetadata)
    packageNames,   \* the array passed to fetchNpmMetadata
    packageData,    \* the map being filled: name -> record
    tpc,            \* per task: "start" | "awaitPrimary" | "awaitSecondary" | "done"
    primary,        \* per task: its primary request: unsent, in flight, or its answer
    secondary,      \* per task: its secondary request: unsent, in flight, or its answer
    writes,         \* the (task, key) pairs of every assignment into packageData
    fpc             \* "idle" | "called" | "running" | "returned" | "rejected"

xvars == <<stmts, content, imports, xpc>>
wvars == <<fs, analysis, uniquePackages, packageUsage, wpc>>
fvars == <<packageNames, packageData, tpc, primary, secondary, writes, fpc>>
vars == <<xvars, wvars, fvars>>

(***************************************************************************)
(* Strings                                                                 *)
(***************************************************************************)
Range(s) == {s[k] : k \in 1..Len(s)}

Min(S) == CHOOSE x \in S : \A y \in S : x <= y

Max(S) == CHOOSE x \in S : \A y \in S : x >= y

\* lit occurs in s at index i
HasAt(s, i, lit) ==
    /\ i >= 1
    /\ i + Len(lit) - 1 <= Len(s)
    /\ \A k \in 1..Len(lit) : s[i + k - 1] = lit[k]

startsWith(s, lit) == HasAt(s, 1, lit)

endsWith(s, lit) == HasAt(s, Len(s) - Len(lit) + 1, lit)

\* s.split("/")[0]: the text before the first "/", the whole of s without one
splitFirst(s) ==
    LET slashes == {k \in 1..Len(s) : s[k] = "/"}
    IN  IF slashes = {} THEN s ELSE SubSeq(s, 1, Min(slashes) - 1)

\* Set.add on an insertion-ordered set
setAdd(seq, x) == IF x \in Range(seq) THEN seq ELSE Append(seq, x)

(***************************************************************************)
(* The regular expressions of analyzeFileImports                           *)
(***************************************************************************)
IsQuote(c) == c \in {"'", "\""}

\* what "." does not match
IsLineTerminator(c) == c \in {"\n", "\r"}

kwRequire == <<"r", "e", "q", "u", "i", "r", "e", "(">>
kwImportSp == <<"i", "m", "p", "o", "r", "t", " ">>
kwImportPar == <<"i", "m", "p", "o", "r", "t", "(">>
kwSpFrom == <<" ", "f", "r", "o", "m", " ">>
kwFrom == <<"f", "r", "o", "m", " ">>

\* ['"]([^'"]+)['"] with the opening quote at q: the index of the closing
\* quote, 0 when it does not match there. The class [^'"]+ is greedy and the
\* next character must be a quote, so it runs to the first quote after q.
QuotedEnd(s, q) ==
    IF q >= 1 /\ q <= Len(s) /\ IsQuote(s[q])
    THEN LET ks == {k \in (q + 1)..Len(s) : IsQuote(s[k])}
         IN  IF ks # {} /\ Min(ks) > q + 1 THEN Min(ks) ELSE 0
    ELSE 0

\* keyword ['"]([^'"]+)['"] \) at i: the index of the last character matched
CallEnd(s, i, kw) ==
    IF HasAt(s, i, kw)
    THEN LET k == QuotedEnd(s, i + Len(kw))
         IN  IF k # 0 /\ k + 1 <= Len(s) /\ s[k + 1] = ")" THEN k + 1 ELSE 0
    ELSE 0

\* import .+ from ['"]([^'"]+)['"] at i: ".+" is greedy, so the match uses the
\* last " from " on the line that a quoted literal follows
ImportEnd(s, i) ==
    IF HasAt(s, i, kwImportSp)
    THEN LET b == i + Len(kwImportSp)
             ps == {p \in (b + 1)..Len(s) :
                       /\ \A k \in b..(p - 1) : ~IsLineTerminator(s[k])
                       /\ HasAt(s, p, kwSpFrom)
                       /\ QuotedEnd(s, p + Len(kwSpFrom)) # 0}
         IN  IF ps = {} THEN 0 ELSE QuotedEnd(s, Max(ps) + Len(kwSpFrom))
    ELSE 0

\* from ['"]([^'"]+)['"] at i
FromEnd(s, i) ==
    IF HasAt(s, i, kwFrom) THEN QuotedEnd(s, i + Len(kwFrom)) ELSE 0

MatchEnd(kind, s, i) ==
    CASE kind = "require" -> CallEnd(s, i, kwRequire)
      [] kind = "import" -> ImportEnd(s, i)
      [] kind = "dynamic" -> CallEnd(s, i, kwImportPar)
      [] kind = "from" -> FromEnd(s, i)

\* content.match(/.../g): the matched substrings, left to right, not overlapping
RECURSIVE matchAllFrom(_, _, _)
matchAllFrom(kind, s, i) ==
    IF i > Len(s) THEN <<>>
    ELSE LET e == MatchEnd(kind, s, i)
         IN  IF e # 0
             THEN <<SubSeq(s, i, e)>> \o matchAllFrom(kind, s, e + 1)
             ELSE matchAllFrom(kind, s, i + 1)

matchAll(kind, s) == matchAllFrom(kind, s, 1)

\* /.../.exec(m)[1]: the quoted literal of the leftmost match in m, <<>> if none
execCapture(kind, m) ==
    LET is == {i \in 1..Len(m) : MatchEnd(kind, m, i) # 0}
    IN  IF is = {} THEN <<>>
        ELSE LET i == Min(is)
                 qs == {k \in i..Len(m) : IsQuote(m[k])}
                 q == Min(qs)
             IN  SubSeq(m, q + 1, QuotedEnd(m, q) - 1)

(***************************************************************************)
(* analyzeFileImports                                                      *)
(***************************************************************************)
\* pkg.split("/")[0]
baseNameMissingSplit(pkg) == pkg

baseName(pkg) == splitFirst(pkg)

\* if (!pkg.startsWith(".") && !pkg.startsWith("/"))
isNpmPackageNoFilter(pkg) == TRUE

isNpmPackage(pkg) == ~startsWith(pkg, <<".">>) /\ ~startsWith(pkg, <<"/">>)

\* one forEach over the matches of one pattern
RECURSIVE addMatches(_, _, _)
addMatches(acc, execKind, ms) ==
    IF ms = <<>> THEN acc
    ELSE LET pkg == execCapture(execKind, Head(ms))
             next == IF pkg # <<>> /\ isNpmPackage(pkg)
                     THEN setAdd(acc, baseName(pkg))
                     ELSE acc
         IN  addMatches(next, execKind, Tail(ms))

\* the body of analyzeFileImports after readFileSync
analyzeFileImports(text) ==
    LET afterRequire == addMatches(<<>>, "require", matchAll("require", text))
        afterImport == addMatches(afterRequire, "from", matchAll("import", text))
    IN  addMatches(afterImport, "dynamic", matchAll("dynamic", text))

(***************************************************************************)
(* Texts for the import extractor                                          *)
(***************************************************************************)
MaxStmts == 3

\* form: "require" | "import" | "dynamic" | "bare"; spec: the import specifier
Stmt(form, spec, quote) == [form |-> form, spec |-> spec, quote |-> quote]

sPkg == <<"p", "k", "g">>
sPkgSub == <<"p", "k", "g", "/", "s", "u", "b">>
sScopePkg == <<"@", "s", "c", "o", "p", "e", "/", "p", "k", "g">>
sLocal == <<".", "/", "l", "o", "c", "a", "l">>
sAbs == <<"/", "a", "b", "s">>
sLodash == <<"l", "o", "d", "a", "s", "h">>

StmtPool ==
    { Stmt("require", sPkg, "\""),
      Stmt("import", sPkgSub, "\""),
      Stmt("dynamic", sScopePkg, "\""),
      Stmt("require", sLocal, "'"),
      Stmt("import", sAbs, "'"),
      Stmt("dynamic", sLocal, "\""),
      Stmt("dynamic", sPkg, "'"),
      Stmt("bare", sLodash, "\""),
      Stmt("bare", sLocal, "'") }

Separators == { <<"\n">>, <<";", " ">> }

\* the source text of one statement
Render(st) ==
    LET lit == <<st.quote>> \o st.spec \o <<st.quote>>
    IN  CASE st.form = "require" -> kwRequire \o lit \o <<")">>
          [] st.form = "import" -> kwImportSp \o <<"x">> \o kwSpFrom \o lit
          [] st.form = "dynamic" -> kwImportPar \o lit \o <<")">>
          [] st.form = "bare" -> kwImportSp \o lit

RECURSIVE RenderAll(_, _)
RenderAll(ss, sep) ==
    IF ss = <<>> THEN <<>>
    ELSE IF Len(ss) = 1 THEN Render(Head(ss))
    ELSE Render(Head(ss)) \o sep \o RenderAll(Tail(ss), sep)

StmtSeqs == UNION {[1..n -> StmtPool] : n \in 0..MaxStmts}

(***************************************************************************)
(* The file system seen by fs.existsSync, readdirSync, statSync and        *)
(* readFileSync                                                            *)
(***************************************************************************)
\* path.join(targetPath, entry): entry is a directory-listing name (no "/")
join(targetPath, entry) == targetPath \o <<"/">> \o entry

\* the directory part and the last name of a path
parentOf(p) == SubSeq(p, 1, Max({k \in 1..Len(p) : p[k] = "/"}) - 1)

nameOf(p) == SubSeq(p, Max({k \in 1..Len(p) : p[k] = "/"}) + 1, Len(p))

Dir(entries) ==
    [kind |-> "dir", entries |-> entries, text |-> <<>>,
     statOk |-> TRUE, listOk |-> TRUE, readOk |-> TRUE]

File(text) ==
    [kind |-> "file", entries |-> <<>>, text |-> text,
     statOk |-> TRUE, listOk |-> TRUE, readOk |-> TRUE]

existsSync(f, p) == p \in DOMAIN f

\* readdirSync throws on a directory that cannot be listed and on a file
readdirThrows(f, p) == f[p].kind # "dir" \/ ~f[p].listOk

\* statSync throws on an entry that is gone or cannot be accessed
statThrows(f, p) == p \notin DOMAIN f \/ ~f[p].statOk

isDirectory(f, p) == f[p].kind = "dir"

readFileThrows(f, p) == ~f[p].readOk

(***************************************************************************)
(* analyzeProjectStructure                                                 *)
(***************************************************************************)
nNodeModules == <<"n", "o", "d", "e", "_", "m", "o", "d", "u", "l", "e", "s">>
nGit == <<".", "g", "i", "t">>
extJs == <<".", "j", "s">>
extJsx == <<".", "j", "s", "x">>
extTs == <<".", "t", "s">>
extTsx == <<".", "t", "s", "x">>

\* the fixed threshold of "imports.length > 3"
SuggestThreshold == 3

\* entry !== "node_modules" && entry !== ".git" && !entry.startsWith(".")
keepsDirectory(entry) ==
    /\ entry # nNodeModules
    /\ entry # nGit
    /\ ~startsWith(entry, <<".">>)

\* entry.endsWith(".js") || ... || entry.endsWith(".tsx")
keepsFile(entry) ==
    \/ endsWith(entry, extJs)
    \/ endsWith(entry, extJsx)
    \/ endsWith(entry, extTs)
    \/ endsWith(entry, extTsx)

\* a JS object with string keys, in insertion order: a sequence of entries
objKeys(obj) == [k \in 1..Len(obj) |-> obj[k].key]

objHas(obj, key) == \E k \in 1..Len(obj) : obj[k].key = key

objGet(obj, key) == obj[CHOOSE k \in 1..Len(obj) : obj[k].key = key].value

\* obj[key] = value
objSet(obj, key, value) ==
    IF objHas(obj, key)
    THEN [k \in 1..Len(obj) |->
            IF obj[k].key = key THEN [key |-> key, value |-> value] ELSE obj[k]]
    ELSE Append(obj, [key |-> key, value |-> value])

\* Object.assign(target, source)
RECURSIVE objectAssign(_, _)
objectAssignOverwrite(target, source) == source

objectAssign(target, source) ==
    IF source = <<>> THEN target
    ELSE objectAssign(objSet(target, Head(source).key, Head(source).value),
                      Tail(source))

emptyAnalysis ==
    [structure |-> <<>>, packageImports |-> <<>>, suggestedAnalysis |-> <<>>,
     threw |-> FALSE]

\* the allEntries.forEach that fills directories (wantDirs) or files
RECURSIVE partition(_, _, _, _)
partition(f, targetPath, entries, wantDirs) ==
    IF entries = <<>> THEN <<>>
    ELSE LET entry == Head(entries)
             fullPath == join(targetPath, entry)
             rest == partition(f, targetPath, Tail(entries), wantDirs)
         IN  IF statThrows(f, fullPath) THEN rest
             ELSE IF isDirectory(f, fullPath)
             THEN IF wantDirs /\ keepsDirectory(entry) THEN <<entry>> \o rest ELSE rest
             ELSE IF ~wantDirs /\ keepsFile(entry) THEN <<entry>> \o rest ELSE rest

\* imports.length > 3
suggestsAtLeast(n) == n >= SuggestThreshold

suggests(n) == n > SuggestThreshold

\* the files.forEach
RECURSIVE processFiles(_, _, _, _)
processFiles(f, targetPath, files, acc) ==
    IF files = <<>> THEN acc
    ELSE LET fullPath == join(targetPath, Head(files))
             node == [type |-> "file", name |-> Head(files), path |-> fullPath,
                      children |-> <<>>]
             pushed == [acc EXCEPT !.structure = Append(@, node)]
             found == analyzeFileImports(f[fullPath].text)
             next ==
                 IF readFileThrows(f, fullPath) THEN pushed
                 ELSE IF Len(found) > 0
                 THEN [pushed EXCEPT
                         !.packageImports = objSet(@, fullPath, found),
                         !.suggestedAnalysis =
                             IF suggests(Len(found)) THEN Append(@, fullPath) ELSE @]
                 ELSE pushed
         IN  processFiles(f, targetPath, Tail(files), next)

RECURSIVE analyzeProjectStructure(_, _)
RECURSIVE processDirectories(_, _, _, _)
\* the directories.forEach; an exception of a recursive call is not caught
processDirectories(f, targetPath, dirs, acc) ==
    IF dirs = <<>> \/ acc.threw THEN acc
    ELSE LET fullPath == join(targetPath, Head(dirs))
             subAnalysis == analyzeProjectStructure(f, fullPath)
             node == [type |-> "directory", name |-> Head(dirs), path |-> fullPath,
                      children |-> subAnalysis.structure]
             next ==
                 IF subAnalysis.threw THEN [acc EXCEPT !.threw = TRUE]
                 ELSE [acc EXCEPT
                         !.structure = Append(@, node),
                         !.packageImports = objectAssign(@, subAnalysis.packageImports),
                         !.suggestedAnalysis = @ \o subAnalysis.suggestedAnalysis]
         IN  processDirectories(f, targetPath, Tail(dirs), next)

analyzeProjectStructure(f, targetPath) ==
    IF ~existsSync(f, targetPath) THEN emptyAnalysis
    ELSE IF readdirThrows(f, targetPath) THEN [emptyAnalysis EXCEPT !.threw = TRUE]
    ELSE LET allEntries == f[targetPath].entries
             directories == partition(f, targetPath, allEntries, TRUE)
             files == partition(f, targetPath, allEntries, FALSE)
             afterDirs == processDirectories(f, targetPath, directories, emptyAnalysis)
         IN  IF afterDirs.threw THEN afterDirs
             ELSE processFiles(f, targetPath, files, afterDirs)

(***************************************************************************)
(* extractUniquePackages and the usage aggregation of generateAnalysisHTML *)
(***************************************************************************)
RECURSIVE addAll(_, _)
addAll(acc, pkgs) ==
    IF pkgs = <<>> THEN acc ELSE addAll(setAdd(acc, Head(pkgs)), Tail(pkgs))

\* Object.values(packageImports).forEach(imports => imports.forEach(add))
RECURSIVE extractUniquePackages(_)
extractUniquePackages(packageImports) ==
    IF packageImports = <<>> THEN <<>>
    ELSE LET n == Len(packageImports)
         IN  addAll(extractUniquePackages(SubSeq(packageImports, 1, n - 1)),
                    packageImports[n].value)

\* packageUsage is created by "{}": a key it does not own is looked up on
\* Object.prototype, where these names are found (and are truthy)
ObjectPrototypeProps ==
    { <<"c", "o", "n", "s", "t", "r", "u", "c", "t", "o", "r">>, <<"t", "o", "S", "t", "r", "i", "n", "g">>, <<"v", "a", "l", "u", "e", "O", "f">>, <<"h", "a", "s", "O", "w", "n", "P", "r", "o", "p", "e", "r", "t", "y">>,
      <<"i", "s", "P", "r", "o", "t", "o", "t", "y", "p", "e", "O", "f">>, <<"t", "o", "L", "o", "c", "a", "l", "e", "S", "t", "r", "i", "n", "g">>, <<"p", "r", "o", "p", "e", "r", "t", "y", "I", "s", "E", "n", "u", "m", "e", "r", "a", "b", "l", "e">>,
      <<"_", "_", "p", "r", "o", "t", "o", "_", "_">> }

emptyUsage == [usage |-> <<>>, threw |-> FALSE]

\* the body of imports.forEach for one (file, pkg):
\*   if (!packageUsage[pkg]) packageUsage[pkg] = {count: 0, files: []};
\*   packageUsage[pkg].count++; packageUsage[pkg].files.push(file);
\* An inherited property is truthy, has no "files", and push on undefined throws.
countUse(acc, file, pkg) ==
    IF acc.threw THEN acc
    ELSE IF ~objHas(acc.usage, pkg) /\ pkg \in ObjectPrototypeProps
    THEN [acc EXCEPT !.threw = TRUE]
    ELSE LET old == IF objHas(acc.usage, pkg) THEN objGet(acc.usage, pkg)
                    ELSE [count |-> 0, files |-> <<>>]
         IN  [acc EXCEPT !.usage =
                 objSet(@, pkg, [count |-> old.count + 1,
                                 files |-> Append(old.files, file)])]

RECURSIVE countFile(_, _, _)
countFile(acc, file, pkgs) ==
    IF pkgs = <<>> THEN acc
    ELSE countFile(countUse(acc, file, Head(pkgs)), file, Tail(pkgs))

\* Object.entries(analysis.packageImports).forEach(...)
RECURSIVE aggregateFrom(_, _)
aggregateFrom(acc, packageImports) ==
    IF packageImports = <<>> THEN acc
    ELSE aggregateFrom(
            countFile(acc, Head(packageImports).key, Head(packageImports).value),
            Tail(packageImports))

aggregate(packageImports) == aggregateFrom(emptyUsage, packageImports)

(***************************************************************************)
(* Directory trees for the walker                                          *)
(***************************************************************************)
MaxFaults == 1

Root == <<"/", "p">>

nA == <<"a", ".", "t", "s">>
nB == <<"b">>
nC == <<"c", ".", "j", "s">>
nD == <<"d">>
nE == <<"e", ".", "j", "s", "x">>
nS == <<"s">>
nF == <<"f", ".", "t", "s", "x">>
nFoo == <<"f", "o", "o", ".", "j", "s">>
nCfg == <<".", "c", "f", "g">>
nH == <<"h", ".", "t", "s">>
nX == <<"x", ".", "j", "s">>
nNotes == <<"n", "o", "t", "e", "s", ".", "m", "d">>

pA == join(Root, nA)
pB == join(Root, nB)
pC == join(pB, nC)
pD == join(pB, nD)
pE == join(pD, nE)
pBGit == join(pB, nGit)
pX == join(pBGit, nX)
pS == join(Root, nS)
pF == join(pS, nF)
pNM == join(Root, nNodeModules)
pFoo == join(pNM, nFoo)
pCfg == join(Root, nCfg)
pH == join(pCfg, nH)
pNotes == join(Root, nNotes)

tNone == <<"x", " ", "=", " ", "1">>
tBare == <<"i", "m", "p", "o", "r", "t", " ", "\"", "l", "o", "d", "a", "s", "h", "\"">>
tFp == <<"r", "e", "q", "u", "i", "r", "e", "(", "\"", "l", "o", "d", "a", "s", "h", "/", "f", "p", "\"", ")", "\n", "r", "e", "q", "u", "i", "r", "e", "(", "\"", ".", "/", "l", "o", "c", "a", "l", "\"", ")">>
tThree == <<"i", "m", "p", "o", "r", "t", " ", "a", " ", "f", "r", "o", "m", " ", "'", "p", "1", "'", "\n", "i", "m", "p", "o", "r", "t", "(", "'", "p", "2", "'", ")", "\n", "r", "e", "q", "u", "i", "r", "e", "(", "'", "p", "3", "/", "x", "'", ")", "\n", "r", "e", "q", "u", "i", "r", "e", "(", "'", "p", "1", "'", ")">>
tFour == <<"r", "e", "q", "u", "i", "r", "e", "(", "'", "p", "1", "'", ")", "\n", "i", "m", "p", "o", "r", "t", " ", "b", " ", "f", "r", "o", "m", " ", "\"", "p", "2", "\"", "\n", "i", "m", "p", "o", "r", "t", "(", "'", "p", "3", "'", ")", "\n", "r", "e", "q", "u", "i", "r", "e", "(", "'", "p", "4", "'", ")">>
tCtor == <<"r", "e", "q", "u", "i", "r", "e", "(", "\"", "c", "o", "n", "s", "t", "r", "u", "c", "t", "o", "r", "\"", ")", "\n", "r", "e", "q", "u", "i", "r", "e", "(", "'", "p", "1", "'", ")">>

\* the orders in which readdirSync lists the root
RootListings ==
    { <<nA, nB, nS, nNodeModules, nCfg, nNotes>>,
      <<nS, nNotes, nB, nA>>,
      <<nA, nB>>,
      <<nNodeModules>> }

\* the texts each scanned file may hold
TextChoices ==
    [ {pA} -> {tBare, tFour, tCtor} ] \X [ {pC} -> {tFp, tThree, tFour} ]
        \X [ {pE} -> {tNone, tFour} ] \X [ {pF} -> {tThree, tFour} ]

\* the orders in which readdirSync lists b
BListings == { <<nC>>, <<nC, nD, nGit>> }

\* p is reached from the root through the listings of all
RECURSIVE Listed(_, _)
Listed(all, p) ==
    \/ p = Root
    \/ /\ Len(p) > Len(Root)
       /\ parentOf(p) \in DOMAIN all
       /\ nameOf(p) \in Range(all[parentOf(p)].entries)
       /\ Listed(all, parentOf(p))

\* the tree without faults
Tree(listing, blisting, texts) ==
    LET all == (Root :> Dir(listing))
            @@ (pA :> File(texts[1][pA]))
            @@ (pB :> Dir(blisting))
            @@ (pC :> File(texts[2][pC]))
            @@ (pD :> Dir(<<nE>>))
            @@ (pE :> File(texts[3][pE]))
            @@ (pBGit :> Dir(<<nX>>))
            @@ (pX :> File(tFour))
            @@ (pS :> Dir(<<nF>>))
            @@ (pF :> File(texts[4][pF]))
            @@ (pNM :> Dir(<<nFoo>>))
            @@ (pFoo :> File(tFour))
            @@ (pCfg :> Dir(<<nH>>))
            @@ (pH :> File(tFour))
            @@ (pNotes :> File(tFour))
    IN  [p \in {q \in DOMAIN all : Listed(all, q)} |-> all[p]]

\* a fault: statSync, readdirSync or readFileSync fails on one path
FaultSites(tree) ==
    {[op |-> "stat", path |-> p] : p \in DOMAIN tree \ {Root}}
        \cup {[op |-> "list", path |-> p] : p \in {q \in DOMAIN tree \ {Root} : tree[q].kind = "dir"}}
        \cup {[op |-> "read", path |-> p] : p \in {q \in DOMAIN tree : tree[q].kind = "file"}}

WithFaults(tree, faults) ==
    [p \in DOMAIN tree |->
        [tree[p] EXCEPT
            !.statOk = [op |-> "stat", path |-> p] \notin faults,
            !.listOk = [op |-> "list", path |-> p] \notin faults,
            !.readOk = [op |-> "read", path |-> p] \notin faults]]

\* the subsets of S with at most n elements
RECURSIVE SubsetsUpTo(_, _)
SubsetsUpTo(S, n) ==
    IF n = 0 THEN {{}}
    ELSE LET smaller == SubsetsUpTo(S, n - 1)
         IN  smaller \cup {F \cup {x} : F \in smaller, x \in S}

FaultSets(tree) == SubsetsUpTo(FaultSites(tree), MaxFaults)

\* a root path that does not exist
NoTree == [p \in {} |-> Dir(<<>>)]

(***************************************************************************)
(* State machines                                                          *)
(***************************************************************************)
IdleX == stmts = <<>> /\ content = <<>> /\ imports = <<>> /\ xpc = "idle"

IdleW ==
    /\ fs = NoTree
    /\ analysis = emptyAnalysis
    /\ uniquePackages = <<>>
    /\ packageUsage = emptyUsage
    /\ wpc = "idle"

IdleF ==
    /\ packageNames = <<>>
    /\ packageData = <<>>
    /\ tpc = <<>>
    /\ primary = <<>>
    /\ secondary = <<>>
    /\ writes = {}
    /\ fpc = "idle"

\* ---- the import extractor on one text
InitExtract ==
    /\ stmts \in StmtSeqs
    /\ \E sep \in Separators : content = RenderAll(stmts, sep)
    /\ imports = <<>>
    /\ xpc = "text"
    /\ IdleW /\ IdleF

AnalyzeFile ==
    /\ xpc = "text"
    /\ imports' = analyzeFileImports(content)
    /\ xpc' = "extracted"
    /\ UNCHANGED <<stmts, content, wvars, fvars>>

NextExtract == AnalyzeFile

SpecExtract == InitExtract /\ [][NextExtract]_vars

\* ---- the "analyze project" command: walk, unique packages, usage index
InitWalk ==
    /\ \/ fs = NoTree
       \/ \E listing \in RootListings, blisting \in BListings, texts \in TextChoices :
            \E faults \in FaultSets(Tree(listing, blisting, texts)) :
                fs = WithFaults(Tree(listing, blisting, texts), faults)
    /\ analysis = emptyAnalysis
    /\ uniquePackages = <<>>
    /\ packageUsage = emptyUsage
    /\ wpc = "start"
    /\ IdleX /\ IdleF

AnalyzeProject ==
    /\ wpc = "start"
    /\ analysis' = analyzeProjectStructure(fs, Root)
    /\ wpc' = IF analysis'.threw THEN "walkThrew" ELSE "walked"
    /\ UNCHANGED <<fs, uniquePackages, packageUsage, xvars, fvars>>

ExtractUnique ==
    /\ wpc = "walked"
    /\ uniquePackages' = extractUniquePackages(analysis.packageImports)
    /\ wpc' = IF Len(uniquePackages') = 0 THEN "noPackages" ELSE "extracted"
    /\ UNCHANGED <<fs, analysis, packageUsage, xvars, fvars>>

GenerateAnalysis ==
    /\ wpc = "extracted"
    /\ packageUsage' = aggregate(analysis.packageImports)
    /\ wpc' = IF packageUsage'.threw THEN "aggregateThrew" ELSE "aggregated"
    /\ UNCHANGED <<fs, analysis, uniquePackages, xvars, fvars>>

NextWalk == AnalyzeProject \/ ExtractUnique \/ GenerateAnalysis

SpecWalk == InitWalk /\ [][NextWalk]_vars


(***************************************************************************)
(* fetchNpmMetadata                                                        *)
(***************************************************************************)
MaxPackages == 2

nmMoment == <<"m", "o", "m", "e", "n", "t">>
nmLodash == <<"l", "o", "d", "a", "s", "h">>
nmUnderscore == <<"u", "n", "d", "e", "r", "s", "c", "o", "r", "e">>
nmRequest == <<"r", "e", "q", "u", "e", "s", "t">>
nmJquery == <<"j", "q", "u", "e", "r", "y">>
nmLeftPad == <<"l", "e", "f", "t", "-", "p", "a", "d">>

\* the package names a batch is drawn from
NamePool == {nmMoment, nmLodash, nmLeftPad}

\* arrays of distinct names (the callers pass Array.from of a Set)
DistinctSeqs(S, n) ==
    {s \in UNION {[1..m -> S] : m \in 0..n} :
        \A a, b \in 1..Len(s) : a # b => s[a] # s[b]}

StatusOk == 200

\* response bodies of the registry, as axios hands them over in response.data
bodyFull ==
    [type |-> "object",
     fields |->
        ("dist-tags" :> [latest |-> "2.1.0"])
        @@ ("description" :> "a package")
        @@ ("license" :> "MIT")
        @@ ("homepage" :> "https://example.org")
        @@ ("repository" :> [url |-> "git://example.org/repo.git"])
        @@ ("maintainers" :> <<"ann", "bob">>)
        @@ ("time" :> ("2.1.0" :> "2024-01-01T00:00:00Z"))
        @@ ("versions" :> ("2.1.0" :> [dependencies |-> {"dep-a", "dep-b"}]))]

\* a JSON object without any of the fields read
bodyEmptyObject == [type |-> "object", fields |-> [k \in {} |-> ""]]

\* a body that is not JSON: axios leaves it a string
bodyText == [type |-> "string", fields |-> [k \in {} |-> ""]]

\* the JSON body "null"
bodyNull == [type |-> "null", fields |-> [k \in {} |-> ""]]

bodyDownloads ==
    [type |-> "object", fields |-> ("downloads" :> 1234) @@ ("package" :> "p")]

errNetwork == [isError |-> TRUE, message |-> "Network Error"]
errNotFound == [isError |-> TRUE, message |-> "Request failed with status code 404"]
errNullBody ==
    [isError |-> TRUE, message |-> "Cannot read properties of null (reading 'dist-tags')"]

Threw(error) == [kind |-> "throw", error |-> error, status |-> 0, data |-> bodyNull]
Response(status, data) ==
    [kind |-> "response", error |-> errNetwork, status |-> status, data |-> data]
\* a request of the task that axios.get has not been called for yet
Unsent == [kind |-> "unsent", error |-> errNetwork, status |-> 0, data |-> bodyNull]
\* a request in flight
Pending == [kind |-> "pending", error |-> errNetwork, status |-> 0, data |-> bodyNull]
\* a request in flight that the registry never answers: axios.get is called
\* without a timeout, so its promise stays pending for ever
Never == [kind |-> "never", error |-> errNetwork, status |-> 0, data |-> bodyNull]
\* what a request is when axios.get has just been called
Issued == {Pending, Never}

PrimaryOutcomes ==
    { Threw(errNetwork), Threw(errNotFound),
      Response(StatusOk, bodyFull), Response(StatusOk, bodyEmptyObject),
      Response(StatusOk, bodyText), Response(StatusOk, bodyNull),
      \* a 2xx status other than 200: axios resolves it instead of throwing
      Response(204, bodyEmptyObject) }

SecondaryOutcomes ==
    { Threw(errNetwork),
      Response(StatusOk, bodyDownloads), Response(StatusOk, bodyEmptyObject),
      Response(StatusOk, bodyNull),
      Response(204, bodyEmptyObject) }

\* errorString(error)
errorString(error) == IF error.isError THEN error.message ELSE "error"

\* data.k || dflt, for a string field
strOr(data, k, dflt) ==
    IF k \in DOMAIN data.fields /\ data.fields[k] # "" THEN data.fields[k] ELSE dflt

\* data["dist-tags"]?.latest; "" stands for undefined
latestOf(data) ==
    IF "dist-tags" \in DOMAIN data.fields THEN data.fields["dist-tags"].latest ELSE ""

\* the object literal of the full record
fullRecord(packageName, data) ==
    LET latestVersion == latestOf(data)
        has(k) == k \in DOMAIN data.fields
    IN  [name |-> packageName,
         description |-> strOr(data, "description", ""),
         version |-> latestVersion,
         license |-> strOr(data, "license", "Unknown"),
         homepage |-> strOr(data, "homepage", ""),
         repository |-> IF has("repository") THEN data.fields["repository"].url ELSE "",
         maintainers |-> IF has("maintainers") THEN Len(data.fields["maintainers"]) ELSE 0,
         lastPublished |->
            IF has("time") /\ latestVersion \in DOMAIN data.fields["time"]
            THEN data.fields["time"][latestVersion] ELSE "",
         dependencies |->
            IF has("versions") /\ latestVersion \in DOMAIN data.fields["versions"]
            THEN data.fields["versions"][latestVersion].dependencies ELSE {},
         weeklyDownloads |-> 0,
         alternatives |-> <<>>]

\* the object literal of the catch block
degradedRecord(packageName, error) ==
    [name |-> packageName,
     description |-> "Could not fetch package data",
     version |-> "",
     error |-> errorString(error)]

\* the key of packageData[packageName] = ... in the task of packageNames[i]
taskKeyShared(names, i) == names[1]

taskKey(names, i) == names[i]

\* the task's code from the primary response to its next await or its end
onPrimaryNoCatch(pd, key, outcome) ==
    IF outcome.kind = "throw"
    THEN [data |-> pd, pc |-> "rejected", wrote |-> FALSE]
    ELSE IF outcome.status = StatusOk
    THEN IF outcome.data.type = "null"
         THEN [data |-> pd, pc |-> "rejected", wrote |-> FALSE]
         ELSE [data |-> objSet(pd, key, fullRecord(key, outcome.data)),
               pc |-> "awaitSecondary", wrote |-> TRUE]
    ELSE [data |-> pd, pc |-> "done", wrote |-> FALSE]

onPrimaryNoStatusCheck(pd, key, outcome) ==
    IF outcome.kind = "throw"
    THEN [data |-> objSet(pd, key, degradedRecord(key, outcome.error)),
          pc |-> "done", wrote |-> TRUE]
    ELSE IF outcome.data.type = "null"
    THEN [data |-> objSet(pd, key, degradedRecord(key, errNullBody)),
          pc |-> "done", wrote |-> TRUE]
    ELSE [data |-> objSet(pd, key, fullRecord(key, outcome.data)),
          pc |-> "awaitSecondary", wrote |-> TRUE]

onPrimary(pd, key, outcome) ==
    IF outcome.kind = "throw"
    THEN [data |-> objSet(pd, key, degradedRecord(key, outcome.error)),
          pc |-> "done", wrote |-> TRUE]
    ELSE IF outcome.status = StatusOk
    THEN IF outcome.data.type = "null"
         THEN \* data["dist-tags"] throws a TypeError, caught by the outer catch
              [data |-> objSet(pd, key, degradedRecord(key, errNullBody)),
               pc |-> "done", wrote |-> TRUE]
         ELSE [data |-> objSet(pd, key, fullRecord(key, outcome.data)),
               pc |-> "awaitSecondary", wrote |-> TRUE]
    ELSE [data |-> pd, pc |-> "done", wrote |-> FALSE]

\* the task's code from the secondary response to its end
onSecondaryNoCatch(pd, key, outcome) ==
    IF outcome.kind = "throw"
    THEN [data |-> objSet(pd, key, degradedRecord(key, outcome.error)),
          pc |-> "done", wrote |-> TRUE]
    ELSE IF outcome.status = StatusOk
    THEN IF outcome.data.type = "null"
         THEN [data |-> objSet(pd, key, degradedRecord(key, errNullBody)),
               pc |-> "done", wrote |-> TRUE]
         ELSE LET downloads ==
                      IF "downloads" \in DOMAIN outcome.data.fields
                      THEN outcome.data.fields["downloads"] ELSE 0
              IN  [data |-> objSet(pd, key,
                                   [objGet(pd, key) EXCEPT !.weeklyDownloads = downloads]),
                   pc |-> "done", wrote |-> TRUE]
    ELSE [data |-> pd, pc |-> "done", wrote |-> FALSE]

onSecondary(pd, key, outcome) ==
    IF outcome.kind = "throw" THEN [data |-> pd, pc |-> "done", wrote |-> FALSE]
    ELSE IF outcome.status = StatusOk
    THEN IF outcome.data.type = "null"
         THEN \* downloadsResponse.data.downloads throws, caught by the inner catch
              [data |-> pd, pc |-> "done", wrote |-> FALSE]
         ELSE LET downloads ==
                      IF "downloads" \in DOMAIN outcome.data.fields
                      THEN outcome.data.fields["downloads"] ELSE 0
              IN  [data |-> objSet(pd, key,
                                   [objGet(pd, key) EXCEPT !.weeklyDownloads = downloads]),
                   pc |-> "done", wrote |-> TRUE]
    ELSE [data |-> pd, pc |-> "done", wrote |-> FALSE]

\* the fixed table of alternatives
alternativesOf(packageName) ==
    IF packageName = nmMoment THEN << <<"d", "a", "t", "e", "-", "f", "n", "s">>, <<"d", "a", "y", "j", "s">>, <<"l", "u", "x", "o", "n">> >>
    ELSE IF packageName = nmLodash \/ packageName = nmUnderscore
    THEN << <<"l", "o", "d", "a", "s", "h", "-", "e", "s">>, <<"r", "a", "m", "d", "a">> >>
    ELSE IF packageName = nmRequest THEN << <<"a", "x", "i", "o", "s">>, <<"n", "o", "d", "e", "-", "f", "e", "t", "c", "h">>, <<"g", "o", "t">> >>
    ELSE IF packageName = nmJquery THEN << <<"c", "a", "s", "h", "-", "d", "o", "m">>, <<"u", "m", "b", "r", "e", "l", "l", "a">> >>
    ELSE <<>>

\* packageData[packageName].alternatives = ... on a record with or without the field
withAlternatives(record, alts) ==
    [k \in DOMAIN record \cup {"alternatives"} |->
        IF k = "alternatives" THEN alts ELSE record[k]]

\* Object.keys(packageData).forEach(...)
enrichFullOnly(pd) ==
    [k \in 1..Len(pd) |->
        IF "alternatives" \in DOMAIN pd[k].value
        THEN [key |-> pd[k].key,
              value |-> withAlternatives(pd[k].value, alternativesOf(pd[k].key))]
        ELSE pd[k]]

enrich(pd) ==
    [k \in 1..Len(pd) |->
        [key |-> pd[k].key,
         value |-> withAlternatives(pd[k].value, alternativesOf(pd[k].key))]]

Tasks == 1..Len(packageNames)

InitFetch ==
    /\ packageNames \in DistinctSeqs(NamePool, MaxPackages)
    /\ packageData = <<>>
    /\ tpc = [i \in 1..Len(packageNames) |-> "start"]
    /\ primary = [i \in 1..Len(packageNames) |-> Unsent]
    /\ secondary = [i \in 1..Len(packageNames) |-> Unsent]
    /\ writes = {}
    /\ fpc = "called"
    /\ IdleX /\ IdleW

\* packageNames.map(async ...) runs every task up to its first await
Call ==
    /\ fpc = "called"
    /\ tpc' = [i \in Tasks |-> "awaitPrimary"]
    /\ primary' \in [Tasks -> Issued]
    /\ fpc' = "running"
    /\ UNCHANGED <<packageNames, packageData, secondary, writes, xvars, wvars>>

Settle(i, res) ==
    /\ packageData' = res.data
    /\ tpc' = [tpc EXCEPT ![i] = res.pc]
    /\ writes' = IF res.wrote THEN writes \cup {<<i, taskKey(packageNames, i)>>} ELSE writes
    /\ fpc' = IF res.pc = "rejected" THEN "rejected" ELSE fpc

\* the primary response of task i arrives; the task runs to its next await,
\* which calls axios.get for the download counts, or to its end
PrimarySettlesOf(i) ==
    /\ i \in Tasks
    /\ \E outcome \in PrimaryOutcomes :
        LET res == onPrimary(packageData, taskKey(packageNames, i), outcome)
        IN  /\ fpc \in {"running", "rejected"}
            /\ tpc[i] = "awaitPrimary"
            /\ primary[i] = Pending
            /\ primary' = [primary EXCEPT ![i] = outcome]
            /\ Settle(i, res)
            /\ IF res.pc = "awaitSecondary"
               THEN \E request \in Issued : secondary' = [secondary EXCEPT ![i] = request]
               ELSE secondary' = secondary
            /\ UNCHANGED <<packageNames, xvars, wvars>>

PrimarySettles == \E i \in Tasks : PrimarySettlesOf(i)

\* the secondary response of task i arrives; the task runs to its end
SecondarySettlesOf(i) ==
    /\ i \in Tasks
    /\ \E outcome \in SecondaryOutcomes :
        /\ fpc \in {"running", "rejected"}
        /\ tpc[i] = "awaitSecondary"
        /\ secondary[i] = Pending
        /\ secondary' = [secondary EXCEPT ![i] = outcome]
        /\ Settle(i, onSecondary(packageData, taskKey(packageNames, i), outcome))
        /\ UNCHANGED <<packageNames, primary, xvars, wvars>>

SecondarySettles == \E i \in Tasks : SecondarySettlesOf(i)

\* Promise.all resolves; the alternatives are attached; the map is returned
ReturnEarly ==
    /\ fpc = "running"
    /\ packageData' = enrich(packageData)
    /\ fpc' = "returned"
    /\ UNCHANGED <<packageNames, tpc, primary, secondary, writes, xvars, wvars>>

Return ==
    /\ fpc = "running"
    /\ \A i \in Tasks : tpc[i] = "done"
    /\ packageData' = enrich(packageData)
    /\ fpc' = "returned"
    /\ UNCHANGED <<packageNames, tpc, primary, secondary, writes, xvars, wvars>>

NextFetch == Call \/ PrimarySettles \/ SecondarySettles \/ Return

SpecFetch == InitFetch /\ [][NextFetch]_vars

\* The same behaviours under the scheduling of the event loop: a continuation
\* that is ready to run is run, and a request in flight that the registry
\* answers (every request but those marked Never) gets its response.
SpecFetchFair ==
    /\ InitFetch /\ [][NextFetch]_vars
    /\ WF_vars(Call) /\ WF_vars(Return)
    /\ \A i \in 1..MaxPackages :
          WF_vars(PrimarySettlesOf(i)) /\ WF_vars(SecondarySettlesOf(i))


(***************************************************************************)
(* Properties of the tree walker                                           *)
(***************************************************************************)
keySet(obj) == {obj[k].key : k \in 1..Len(obj)}

NoDuplicates(seq) == \A a, b \in 1..Len(seq) : a # b => seq[a] # seq[b]

\* the directories strictly between the root and p
DirsAbove(p) ==
    {SubSeq(p, 1, k - 1) : k \in {j \in (Len(Root) + 2)..Len(p) : p[j] = "/"}}

ScannedExtension(name) ==
    \E ext \in {extJs, extJsx, extTs, extTsx} :
        /\ Len(name) >= Len(ext)
        /\ SubSeq(name, Len(name) - Len(ext) + 1, Len(name)) = ext

ExcludedDirName(name) == name = nNodeModules \/ name = nGit \/ Head(name) = "."

FullyReadable(f) == \A p \in DOMAIN f : f[p].statOk /\ f[p].listOk /\ f[p].readOk

\* analyzeProjectStructure has just returned its result
Walked == wpc = "walked"

\* the files of the tree the claim's three conditions select
SelectedFiles(f) ==
    {p \in DOMAIN f :
        /\ f[p].kind = "file"
        /\ ScannedExtension(nameOf(p))
        /\ \A d \in DirsAbove(p) : ~ExcludedDirName(nameOf(d))
        /\ analyzeFileImports(f[p].text) # <<>>}

\* the files a walk with faults can still read: every directory above is
\* accessible and kept, the file itself can be stat-ed and read
ReadableSelectedFiles(f) ==
    {p \in SelectedFiles(f) :
        /\ f[p].statOk /\ f[p].readOk
        /\ \A d \in DirsAbove(p) : f[d].statOk /\ f[d].listOk}

\* C2: a walk never aborts because of one bad entry below the root: it
\* returns normally and still reports every readable eligible file.
C2_WalkNeverAborts ==
    wpc \notin {"idle", "start"} =>
        /\ wpc # "walkThrew"
        /\ ReadableSelectedFiles(fs) \subseteq keySet(analysis.packageImports)

\* C7: after a walk of a fully readable tree the keys of the file-to-packages
\* map are exactly the files with a scanned extension, under no excluded
\* directory, with a non-empty extracted set; each key maps to that set; a
\* root holding only node_modules/foo.js gives an empty map and NoPackagesFound.
C7_KeysAreSelectedFiles ==
    /\ (wpc = "walkThrew") => ~FullyReadable(fs)
    /\ (Walked /\ FullyReadable(fs)) =>
          /\ keySet(analysis.packageImports) = SelectedFiles(fs)
          /\ NoDuplicates(objKeys(analysis.packageImports))
          /\ \A k \in 1..Len(analysis.packageImports) :
                analysis.packageImports[k].value
                    = analyzeFileImports(fs[analysis.packageImports[k].key].text)
    /\ (wpc \notin {"idle", "start"} /\ DOMAIN fs = {Root, pNM, pFoo} /\ FullyReadable(fs)) =>
          /\ analysis.packageImports = <<>>
          /\ wpc \in {"walked", "noPackages"}

\* files of two sibling subtrees and of the root are all kept, next to
\* excluded directories that hold scannable files
C7_Witness ==
    /\ wpc = "walked"
    /\ FullyReadable(fs)
    /\ {pA, pC, pE, pF} \subseteq keySet(analysis.packageImports)
    /\ {pFoo, pH, pX, pNotes} \subseteq DOMAIN fs

\* the walk ran the extractor on file p: it has a scanned extension, can be
\* stat-ed and read, and every directory above it is accessible and kept
Analysed(f, p) ==
    /\ f[p].kind = "file"
    /\ ScannedExtension(nameOf(p))
    /\ f[p].statOk /\ f[p].readOk
    /\ \A d \in DirsAbove(p) : ~ExcludedDirName(nameOf(d)) /\ f[d].statOk

\* C10: in the result of a walk a file is in the suggested list iff it was
\* analysed and has more than 3 distinct packages, at every depth, once.
C10_SuggestedIffMoreThanThree ==
    Walked =>
        /\ \A p \in DOMAIN fs :
              (p \in Range(analysis.suggestedAnalysis))
                  <=> (Analysed(fs, p)
                        /\ Cardinality(Range(analyzeFileImports(fs[p].text))) > 3)
        /\ Range(analysis.suggestedAnalysis) \subseteq DOMAIN fs
        /\ NoDuplicates(analysis.suggestedAnalysis)

\* a root file and a file two levels down with 4 packages are listed, a file
\* with exactly 3 is not
C10_Witness ==
    /\ wpc = "walked"
    /\ Range(analysis.suggestedAnalysis) = {pA, pE}
    /\ pC \in keySet(analysis.packageImports)
    /\ Len(objGet(analysis.packageImports, pC)) = 3

(***************************************************************************)
(* Properties of the walk followed by the aggregation                      *)
(***************************************************************************)
\* the command has run to one of its ends
CommandEnded == wpc \in {"walkThrew", "noPackages", "aggregated", "aggregateThrew"}

IsScenarioC6 ==
    /\ DOMAIN fs = {Root, pA, pB, pC}
    /\ FullyReadable(fs)
    /\ fs[Root].entries = <<nA, nB>>
    /\ fs[pA].text = tBare
    /\ fs[pC].text = tFp

\* C6 (as claimed): the scenario a.ts: import "lodash", b/c.js:
\* require("lodash/fp"), require("./local") yields lodash with count 2 and
\* files [a.ts, b/c.js], and no suggested file.
C6_ScenarioAsClaimed ==
    (IsScenarioC6 /\ CommandEnded) =>
        /\ wpc = "aggregated"
        /\ packageUsage.usage
              = <<[key |-> sLodash, value |-> [count |-> 2, files |-> <<pA, pC>>]]>>
        /\ analysis.suggestedAnalysis = <<>>

\* C6 (amended): in that scenario the bare import of a.ts is no recognised
\* form, so lodash has count 1 and files [b/c.js]; no file is suggested.
C6_ScenarioAmended ==
    (IsScenarioC6 /\ CommandEnded) =>
        /\ wpc = "aggregated"
        /\ packageUsage.usage
              = <<[key |-> sLodash, value |-> [count |-> 1, files |-> <<pC>>]]>>
        /\ analysis.suggestedAnalysis = <<>>

C6_Witness == IsScenarioC6 /\ wpc = "aggregated"

\* the bijections of 1..n
Perms(n) == {q \in [1..n -> 1..n] : \A a, b \in 1..n : a # b => q[a] # q[b]}

FilesReferencing(packageImports, pkg) ==
    {k \in 1..Len(packageImports) : pkg \in Range(packageImports[k].value)}

\* C8: for every permutation of the entries of the file-to-packages map the
\* usage index has the key set extractUniquePackages returns, and each count
\* is the number of files referencing the package and the length of its files.
C8_PermutationInvariant ==
    wpc \in {"aggregated", "aggregateThrew"} =>
        \A q \in Perms(Len(analysis.packageImports)) :
            LET permuted == [k \in 1..Len(analysis.packageImports) |->
                                analysis.packageImports[q[k]]]
                index == aggregate(permuted)
            IN  /\ ~index.threw
                /\ keySet(index.usage) = Range(uniquePackages)
                /\ \A k \in 1..Len(index.usage) :
                      /\ index.usage[k].value.count
                            = Cardinality(FilesReferencing(permuted, index.usage[k].key))
                      /\ index.usage[k].value.count = Len(index.usage[k].value.files)


(***************************************************************************)
(* Properties of the import extractor                                      *)
(***************************************************************************)
StmtRequirePkg == Stmt("require", sPkg, "\"")
StmtImportPkgSub == Stmt("import", sPkgSub, "\"")
StmtDynamicScoped == Stmt("dynamic", sScopePkg, "\"")

\* the text holds exactly the three statements of the claim, in some order
IsTextC3 ==
    /\ Len(stmts) = 3
    /\ Range(stmts) = {StmtRequirePkg, StmtImportPkgSub, StmtDynamicScoped}

\* C3: a text with require("pkg"), import x from "pkg/sub" and
\* import("@scope/pkg") and nothing else extracts to exactly
\* {"pkg", "@scope/pkg"}.
C3_ScopedNameKept ==
    (xpc = "extracted" /\ IsTextC3) => Range(imports) = {sPkg, sScopePkg}

IsRelative(spec) == Head(spec) = "." \/ Head(spec) = "/"

\* C9: every extracted name is non-empty, starts with neither "." nor "/",
\* and appears once; a text whose specifiers all start with "." or "/"
\* extracts to nothing.
C9_NamesWellFormed ==
    xpc = "extracted" =>
        /\ \A k \in 1..Len(imports) :
              /\ imports[k] # <<>>
              /\ imports[k][1] \notin {".", "/"}
        /\ NoDuplicates(imports)
        /\ (\A k \in 1..Len(stmts) : IsRelative(stmts[k].spec)) => imports = <<>>

\* one package referenced three ways next to nothing else: it is kept once
C9_Witness ==
    /\ xpc = "extracted"
    /\ Len(stmts) = 3
    /\ Range(stmts) = {StmtRequirePkg, StmtImportPkgSub, Stmt("dynamic", sPkg, "'")}
    /\ imports = <<sPkg>>

(***************************************************************************)
(* Properties of the metadata fetcher                                      *)
(***************************************************************************)
\* the primary request failed: it threw, or answered with a status other
\* than 200, or with a body that is no JSON object
PrimaryFailed(o) ==
    \/ o.kind = "throw"
    \/ o.kind = "response" /\ o.status # 200
    \/ o.kind = "response" /\ o.data.type # "object"

IsDegraded(record, name) ==
    /\ record.name = name
    /\ "error" \in DOMAIN record
    /\ record.error # ""
    /\ record.version = ""
    /\ "weeklyDownloads" \notin DOMAIN record

\* C1: every package whose primary request failed (thrown error, non-200
\* response, malformed body) has a degraded record in the returned map.
C1_DegradedOnPrimaryFailure ==
    fpc = "returned" =>
        \A i \in Tasks :
            PrimaryFailed(primary[i]) =>
                /\ objHas(packageData, packageNames[i])
                /\ IsDegraded(objGet(packageData, packageNames[i]), packageNames[i])

\* the entries task i stores when it runs alone with the same responses
Alone(i) ==
    LET afterPrimary == onPrimary(<<>>, packageNames[i], primary[i])
    IN  IF afterPrimary.pc = "awaitSecondary"
        THEN onSecondary(afterPrimary.data, packageNames[i], secondary[i]).data
        ELSE afterPrimary.data

EntryOf(pd, name) == SelectSeq(pd, LAMBDA e : e.key = name)

\* C4: the record of a package is the one its own two responses give,
\* whatever the other packages' outcomes and the order of completion; a task
\* writes only the entry of its own name; the batch never rejects.
C4_Isolation ==
    /\ fpc # "rejected"
    /\ \A w \in writes : w[2] = packageNames[w[1]]
    /\ keySet(packageData) \subseteq Range(packageNames)
    /\ \A i \in Tasks :
          /\ (tpc[i] = "done" /\ fpc = "running") =>
                EntryOf(packageData, packageNames[i]) = Alone(i)
          /\ fpc = "returned" =>
                EntryOf(packageData, packageNames[i]) = enrich(Alone(i))

\* two packages returned, the first failed after the second was stored in full
C4_Witness ==
    /\ fpc = "returned"
    /\ Len(packageNames) = 2
    /\ primary[1].kind = "throw"
    /\ secondary[2] = Response(StatusOk, bodyDownloads)
    /\ objKeys(packageData) = <<packageNames[2], packageNames[1]>>

\* the secondary request failed: it threw, or answered with a status other
\* than 200, or with a body without a downloads value
SecondaryFailed(o) ==
    \/ o.kind = "throw"
    \/ o.kind = "response" /\ o.status # 200
    \/ o.kind = "response" /\ o.data.type # "object"
    \/ o.kind = "response" /\ "downloads" \notin DOMAIN o.data.fields

PrimaryFields ==
    {"name", "description", "version", "license", "homepage", "repository",
     "maintainers", "lastPublished", "dependencies"}

IsFull(pd, name) == objHas(pd, name) /\ "error" \notin DOMAIN objGet(pd, name)

C5_AbsorbedState ==
    \A i \in Tasks :
        (tpc[i] = "done" /\ secondary[i].kind # "pending" /\ SecondaryFailed(secondary[i])) =>
            /\ objHas(packageData, packageNames[i])
            /\ LET record == objGet(packageData, packageNames[i])
                   expected == fullRecord(packageNames[i], primary[i].data)
               IN  /\ PrimaryFields \subseteq DOMAIN record
                   /\ \A k \in PrimaryFields : record[k] = expected[k]
                   /\ record.weeklyDownloads = 0
                   /\ "error" \notin DOMAIN record

C5_FullStaysFull ==
    \A name \in NamePool : IsFull(packageData, name) => IsFull(packageData', name)

\* C5: when the primary request succeeded and the secondary failed, the record
\* keeps the fields of the primary response, has weeklyDownloads 0 and no
\* error field; a full record once stored is never replaced by a degraded one.
C5_SecondaryFailureAbsorbed == []C5_AbsorbedState /\ [][C5_FullStaysFull]_vars

\* a full record from a complete primary response whose secondary request threw
C5_Witness ==
    /\ fpc = "returned"
    /\ \E i \in Tasks :
          /\ primary[i] = Response(StatusOk, bodyFull)
          /\ secondary[i].kind = "throw"
          /\ objGet(packageData, packageNames[i]).version = "2.1.0"

\* the list the returned map holds for a package name
C11_Row(name) ==
    IF name = nmMoment THEN <<<<"d", "a", "t", "e", "-", "f", "n", "s">>, <<"d", "a", "y", "j", "s">>, <<"l", "u", "x", "o", "n">>>>
    ELSE IF name \in {nmLodash, nmUnderscore} THEN <<<<"l", "o", "d", "a", "s", "h", "-", "e", "s">>, <<"r", "a", "m", "d", "a">>>>
    ELSE IF name = nmRequest THEN <<<<"a", "x", "i", "o", "s">>, <<"n", "o", "d", "e", "-", "f", "e", "t", "c", "h">>, <<"g", "o", "t">>>>
    ELSE IF name = nmJquery THEN <<<<"c", "a", "s", "h", "-", "d", "o", "m">>, <<"u", "m", "b", "r", "e", "l", "l", "a">>>>
    ELSE <<>>

\* C11: in the returned map every record, full or degraded, has an
\* alternatives list: the entry of the fixed table for a name of the table
\* (date-fns, dayjs, luxon for moment), the empty list for any other name.
C11_AlternativesAttached ==
    /\ fpc = "returned" =>
          \A k \in 1..Len(packageData) :
              LET name == packageData[k].key
                  record == packageData[k].value
              IN  /\ "alternatives" \in DOMAIN record
                  /\ record.alternatives = C11_Row(name)
                  /\ (name = nmMoment) => (Len(record.alternatives) = 3)
                  /\ (name = nmLeftPad) => (record.alternatives = <<>>)
    \* the rows of the table for the names the calls above do not draw
    /\ \A name \in {nmUnderscore, nmRequest, nmJquery} :
          LET one == enrich(<< [key |-> name, value |-> degradedRecord(name, errNetwork)] >>)
          IN  /\ "alternatives" \in DOMAIN one[1].value
              /\ one[1].value.alternatives = C11_Row(name)
              /\ one[1].value.alternatives # <<>>

\* moment stored in full and left-pad degraded, both returned with their lists
C11_Witness ==
    /\ fpc = "returned"
    /\ objHas(packageData, nmMoment) /\ objHas(packageData, nmLeftPad)
    /\ "error" \notin DOMAIN objGet(packageData, nmMoment)
    /\ "error" \in DOMAIN objGet(packageData, nmLeftPad)
    /\ objGet(packageData, nmMoment).alternatives = <<<<"d", "a", "t", "e", "-", "f", "n", "s">>, <<"d", "a", "y", "j", "s">>, <<"l", "u", "x", "o", "n">>>>
    /\ objGet(packageData, nmLeftPad).alternatives = <<>>

\* the primary request did not complete with status 200
C12_PrimaryFailed(o) ==
    \/ o.kind = "throw"
    \/ o.kind = "response" /\ o.status # 200

C12_Order ==
    \A i \in Tasks :
        \* a secondary request exists only next to a primary answer of status 200
        /\ secondary[i] # Unsent =>
              (primary[i].kind = "response" /\ primary[i].status = 200)
        /\ C12_PrimaryFailed(primary[i]) => secondary[i] = Unsent
        \* nor is it sent when the record could not be built from the answer
        /\ (primary[i].kind = "response" /\ primary[i].data.type = "null") =>
              secondary[i] = Unsent
        /\ (tpc[i] = "awaitSecondary") <=> (secondary[i] \in Issued)

\* the steps that call axios.get for the download counts of task i
C12_IssuedOnce ==
    \A i \in Tasks :
        /\ (secondary'[i] # secondary[i] /\ secondary'[i] \in Issued) =>
              /\ secondary[i] = Unsent
              /\ primary[i] = Pending
              /\ primary'[i].kind = "response" /\ primary'[i].status = 200
        /\ secondary[i] # Unsent => secondary'[i] # Unsent

C13_InFlight(request) == request \in Issued

C13_Settled ==
    \A i \in Tasks :
        /\ tpc[i] = "done"
        /\ ~C13_InFlight(primary[i]) /\ primary[i] # Unsent
        /\ ~C13_InFlight(secondary[i])

\* no list of the table is in the map: a full record holds the empty list of
\* its object literal, a degraded record has no alternatives field
C13_NothingAttached ==
    \A k \in 1..Len(packageData) :
        LET record == packageData[k].value
        IN  IF "error" \in DOMAIN record
            THEN "alternatives" \notin DOMAIN record
            ELSE record.alternatives = <<>>

C13_State ==
    /\ fpc = "returned" => C13_Settled
    /\ fpc # "returned" => C13_NothingAttached

C13_Step ==
    /\ (fpc' = "returned" /\ fpc # "returned") => (C13_Settled /\ tpc' = tpc)
    /\ (packageData' # packageData /\ ~C13_Settled) => C13_NothingAttached'
    /\ fpc = "returned" => packageData' = packageData

\* C13: the call is a barrier: alternatives are attached and the map is
\* returned only once every task is done, that is once each primary request
\* and each secondary request that was sent has settled; a returned map has
\* no task in flight.
C13_Barrier == []C13_State /\ [][C13_Step]_vars

\* the record of moment is stored and its task done while the other task
\* waits for its download counts: the call has not returned, no list is attached
C13_Witness ==
    /\ fpc = "running"
    /\ Len(packageNames) = 2
    /\ \E i, j \in Tasks :
          /\ packageNames[i] = nmMoment
          /\ tpc[i] = "done" /\ secondary[i] = Response(StatusOk, bodyDownloads)
          /\ objGet(packageData, nmMoment).alternatives = <<>>
          /\ tpc[j] = "awaitSecondary" /\ secondary[j] = Pending

\* some request the call has sent never settles
C14_Stalled == \E i \in Tasks : primary[i] = Never \/ secondary[i] = Never

C14_Returned == fpc = "returned"

\* C14: when every request the call sends settles, the call returns its map,
\* for the empty list of names too; when a request it has sent never settles,
\* the call never returns.
C14_ReturnsIffAllSettle ==
    /\ <>(C14_Returned \/ C14_Stalled)
    \* a request that never settles stays unsettled, and no state with one
    \* is a returned state
    /\ [][C14_Stalled => C14_Stalled']_vars
    /\ [](C14_Stalled => ~C14_Returned)

\* two packages, four requests sent and answered, the map returned
C14_Witness ==
    /\ C14_Returned
    /\ Len(packageNames) = 2
    /\ \A i \in Tasks :
          /\ primary[i].kind = "response"
          /\ secondary[i].kind \in {"response", "throw"}


(***************************************************************************)
(* Properties of the usage aggregation                                     *)
(***************************************************************************)
C15_RecordsComplete ==
    wpc = "aggregated" =>
        \A pkg \in Range(uniquePackages) :
            /\ objHas(packageUsage.usage, pkg)
            /\ LET record == objGet(packageUsage.usage, pkg)
                   referencing == FilesReferencing(analysis.packageImports, pkg)
               IN  /\ record.count \in Nat /\ record.count >= 1
                   /\ Range(record.files)
                         = {analysis.packageImports[k].key : k \in referencing}
                   /\ Len(record.files) = Cardinality(referencing)

\* C15: the usage aggregation completes without error for every
\* file-to-packages map, whatever the package names are ("constructor",
\* "toString", ...), and gives each package a record with an integer count
\* of at least 1 and the list of the files that reference it.
C15_AggregationTotal ==
    /\ wpc # "aggregateThrew"
    /\ C15_RecordsComplete

====
